---- MODULE Spec2Model ----
\* A model of fnrun-runner (src/main.go): the sinkInvoker decorator, the
\* resolution of the event source and event sink plugins, the construction of
\* the invoker pool from the environment, and run(), which wires them together.
EXTENDS Integers, Sequences, FiniteSets, TLC

\* ---------------------------------------------------------------------------
\* Bounds

\* Number of Invoke calls the event source may have in flight on the one
\* shared sinkInvoker.
MaxCalls == 2

\* Longest value of a numeric environment variable, in characters.
MaxStrLen == 2

\* ---------------------------------------------------------------------------
\* Values

\* The nil error.  Errors are tuples of strings: <<kind, detail...>>.
Nil == <<>>

\* The errors of the collaborators: the wrapped invoker, the sink, the event
\* source, executil.ParseCmd and fnrun.NewInvokerPool.
ErrInvoke == <<"invoker.Invoke">>
ErrSink == <<"sink">>
ErrSource == <<"eventSource">>
ErrParseCmd == <<"executil.ParseCmd">>
ErrNewInvokerPool == <<"fnrun.NewInvokerPool">>

\* The errors getEventSource and getEventSink make themselves.
ErrSourcePathRequired == <<"SOURCE_PLUGIN_PATH is a required environment variable">>
ErrSourceSymbolRequired == <<"SOURCE_PLUGIN_SYMBOL is a required environment variable">>
ErrSinkSymbolRequired ==
    <<"SINK_PLUGIN_SYMBOL is required when a SINK_PLUGIN_PATH is provided">>

\* The nil *fnrun.Result, and the results the wrapped invoker can produce.
NilResult == "nil"
Results == {"ok", "r2"}

\* The nil function value (an unset eventSource / eventSink).
NilFn == <<>>

\* The characters a numeric environment variable is made of: two digits, a
\* sign and a character that is neither.
Alphabet == {"0", "2", "-", "x"}

Digits == {"0", "1", "2", "3", "4", "5", "6", "7", "8", "9"}

DigitVal(ch) ==
    CASE ch = "0" -> 0 [] ch = "1" -> 1 [] ch = "2" -> 2 [] ch = "3" -> 3
      [] ch = "4" -> 4 [] ch = "5" -> 5 [] ch = "6" -> 6 [] ch = "7" -> 7
      [] ch = "8" -> 8 [] ch = "9" -> 9

\* Strings over Alphabet of length 0..n, as sequences of characters.
RECURSIVE StrsOfLen(_)
StrsOfLen(n) ==
    IF n = 0 THEN {<<>>}
    ELSE {Append(s, ch) : s \in StrsOfLen(n - 1), ch \in Alphabet}

NumStrings == UNION {StrsOfLen(n) : n \in 0..MaxStrLen}

\* The plugin files on disk: path -> exported symbol -> the shape of the
\* exported value.  "./missing.so" is not on disk.
PluginFiles ==
    [p \in {"./src.so", "./sink.so"} |->
        IF p = "./src.so"
        THEN [s \in {"Source", "Sink"} |->
                 IF s = "Source" THEN "eventSource" ELSE "eventSink"]
        ELSE [s \in {"Source", "Sink"} |->
                 IF s = "Sink" THEN "eventSink" ELSE "other"]]

PluginPaths == {"", "./src.so", "./sink.so", "./missing.so"}
SymbolNames == {"", "Source", "Sink", "Other"}
CommandStrings == {"", "handler --flag"}

Calls == 1..MaxCalls

\* ---------------------------------------------------------------------------
\* State

VARIABLES
    env,        \* the process environment (os.Getenv)
    pc,         \* position of run()
    config,     \* the fnrun.InvokerPoolConfig getInvoker built, or NoConfig
    invoker,    \* run's invoker: the pool, or "nil"
    eventSource,\* run's eventSource: <<path, symbol>> or NilFn
    si,         \* the sinkInvoker handed to the event source, or NoSinkInvoker
    runErr,     \* run's return value, Nil until it returns an error
    exit,       \* main: "running", "ok" (run returned nil) or "panic"
    calls,      \* log of the calls made by run and by the functions it calls,
                \* in order: <<caller, callee, argument>>
    frames,     \* frames[c]: the locals of Invoke call c
    hist        \* hist[c]: what Invoke call c did, in order

vars == <<env, pc, config, invoker, eventSource, si, runErr, exit, calls, frames, hist>>

NoConfig == [set |-> FALSE]
NoSinkInvoker == [set |-> FALSE]

IdleFrame == [pc |-> "idle", result |-> NilResult, err |-> Nil, ret |-> <<>>]

\* ---------------------------------------------------------------------------
\* strconv.Atoi, as getInvoker uses it

\* The digits of s once an optional leading sign is removed.
AtoiDigits(s) ==
    IF s # <<>> /\ Head(s) \in {"-", "+"} THEN Tail(s) ELSE s

RECURSIVE DecimalValue(_)
DecimalValue(ds) ==
    IF ds = <<>> THEN 0
    ELSE 10 * DecimalValue(SubSeq(ds, 1, Len(ds) - 1)) + DigitVal(ds[Len(ds)])

\* strconv.Atoi(s): [i, err].  A string that is not an optionally signed,
\* non-empty run of decimal digits is a syntax error, returned with i = 0.
\* (Values out of the int64 range need 19 digits, beyond MaxStrLen.)
Atoi(s) ==
    LET ds == AtoiDigits(s) IN
    IF ds = <<>> \/ \E k \in 1..Len(ds) : ds[k] \notin Digits
    THEN [i |-> 0, err |-> <<"strconv.Atoi", "invalid syntax">>]
    ELSE [i |-> IF Head(s) = "-" THEN 0 - DecimalValue(ds) ELSE DecimalValue(ds),
          err |-> Nil]

\* ---------------------------------------------------------------------------
\* getInvoker: the pool configuration

DefaultMaxFuncCount == 8
DefaultMaxWaitMillis == 500
DefaultMaxExecMillis == 30000

\* A plausible slip: the error of Atoi is not looked at, so an unparsable
\* value stores Atoi's zero.
maxExecMillisUnchecked(e) ==
    IF e.MAX_EXEC_MILLIS # <<>> THEN Atoi(e.MAX_EXEC_MILLIS).i
    ELSE DefaultMaxExecMillis

maxFuncCount(e) ==
    IF e.MAX_FUNCTION_COUNT # <<>>
    THEN LET r == Atoi(e.MAX_FUNCTION_COUNT) IN
         IF r.err = Nil THEN r.i ELSE DefaultMaxFuncCount
    ELSE DefaultMaxFuncCount

maxWaitMillis(e) ==
    IF e.MAX_WAIT_MILLIS # <<>>
    THEN LET r == Atoi(e.MAX_WAIT_MILLIS) IN
         IF r.err = Nil THEN r.i ELSE DefaultMaxWaitMillis
    ELSE DefaultMaxWaitMillis

maxExecMillis(e) ==
    IF e.MAX_EXEC_MILLIS # <<>>
    THEN LET r == Atoi(e.MAX_EXEC_MILLIS) IN
         IF r.err = Nil THEN r.i ELSE DefaultMaxExecMillis
    ELSE DefaultMaxExecMillis

\* The fnrun.InvokerPoolConfig of lines 147-152.  The two durations are
\* time.Duration(millis) * time.Millisecond; they are kept here as their
\* count of milliseconds (the nanosecond count of the default 30000 ms is
\* beyond the model checker's integers, and the int64 product cannot wrap for
\* values of at most MaxStrLen digits).
poolConfig(e) ==
    [set |-> TRUE,
     MaxInvokerCount |-> maxFuncCount(e),
     InvokerFactory  |-> e.FUNCTION_COMMAND,
     MaxWaitDuration |-> maxWaitMillis(e),
     MaxRunnableTime |-> maxExecMillis(e)]

\* ---------------------------------------------------------------------------
\* getEventSource and getEventSink: [fn, err, calls], calls being the plugin
\* operations performed, in order.

Loadable(path) == path \in DOMAIN PluginFiles
Exported(path, sym) == sym \in DOMAIN PluginFiles[path]

\* A plausible slip: the symbol name is checked before the module is opened.
getEventSourceSymbolFirst(e) ==
    LET path == e.SOURCE_PLUGIN_PATH
        symbolName == e.SOURCE_PLUGIN_SYMBOL
        open == <<"getEventSource", "plugin.Open", path>>
        lookup == <<"getEventSource", "Lookup", symbolName>>
    IN
    IF path = ""
    THEN [fn |-> NilFn, err |-> ErrSourcePathRequired,
          calls |-> <<>>]
    ELSE IF symbolName = ""
    THEN [fn |-> NilFn, err |-> ErrSourceSymbolRequired,
          calls |-> <<>>]
    ELSE IF ~Loadable(path)
    THEN [fn |-> NilFn, err |-> <<"plugin.Open", path>>, calls |-> <<open>>]
    ELSE IF ~Exported(path, symbolName)
    THEN [fn |-> NilFn, err |-> <<"Lookup", path, symbolName>>, calls |-> <<open, lookup>>]
    ELSE IF PluginFiles[path][symbolName] # "eventSource"
    THEN [fn |-> NilFn, err |-> <<"Symbol could not be found", symbolName, path>>,
          calls |-> <<open, lookup>>]
    ELSE [fn |-> <<path, symbolName>>, err |-> Nil, calls |-> <<open, lookup>>]

getEventSourceResult(e) ==
    LET path == e.SOURCE_PLUGIN_PATH
        symbolName == e.SOURCE_PLUGIN_SYMBOL
        open == <<"getEventSource", "plugin.Open", path>>
        lookup == <<"getEventSource", "Lookup", symbolName>>
    IN
    IF path = ""
    THEN [fn |-> NilFn, err |-> ErrSourcePathRequired,
          calls |-> <<>>]
    ELSE IF ~Loadable(path)
    THEN [fn |-> NilFn, err |-> <<"plugin.Open", path>>, calls |-> <<open>>]
    ELSE IF symbolName = ""
    THEN [fn |-> NilFn, err |-> ErrSourceSymbolRequired,
          calls |-> <<open>>]
    ELSE IF ~Exported(path, symbolName)
    THEN [fn |-> NilFn, err |-> <<"Lookup", path, symbolName>>, calls |-> <<open, lookup>>]
    ELSE IF PluginFiles[path][symbolName] # "eventSource"
    THEN [fn |-> NilFn, err |-> <<"Symbol could not be found", symbolName, path>>,
          calls |-> <<open, lookup>>]
    ELSE [fn |-> <<path, symbolName>>, err |-> Nil, calls |-> <<open, lookup>>]

\* A plausible slip: the check for a missing symbol name is left out, so the
\* empty name is looked up.
getEventSinkNoSymbolCheck(e) ==
    LET path == e.SINK_PLUGIN_PATH
        symbolName == e.SINK_PLUGIN_SYMBOL
        open == <<"getEventSink", "plugin.Open", path>>
        lookup == <<"getEventSink", "Lookup", symbolName>>
    IN
    IF path = ""
    THEN [fn |-> NilFn, err |-> Nil, calls |-> <<>>]
    ELSE IF ~Loadable(path)
    THEN [fn |-> NilFn, err |-> <<"plugin.Open", path>>, calls |-> <<open>>]
    ELSE IF ~Exported(path, symbolName)
    THEN [fn |-> NilFn, err |-> <<"Lookup", path, symbolName>>, calls |-> <<open, lookup>>]
    ELSE IF PluginFiles[path][symbolName] # "eventSink"
    THEN [fn |-> NilFn, err |-> <<"Symbol could not be found", symbolName, path>>,
          calls |-> <<open, lookup>>]
    ELSE [fn |-> <<path, symbolName>>, err |-> Nil, calls |-> <<open, lookup>>]

\* A plausible slip: the sink is taken to be unset when its symbol name is
\* empty, not when its path is.
getEventSinkOptionalBySymbol(e) ==
    LET path == e.SINK_PLUGIN_PATH
        symbolName == e.SINK_PLUGIN_SYMBOL
        open == <<"getEventSink", "plugin.Open", path>>
        lookup == <<"getEventSink", "Lookup", symbolName>>
    IN
    IF symbolName = ""
    THEN [fn |-> NilFn, err |-> Nil, calls |-> <<>>]
    ELSE IF ~Loadable(path)
    THEN [fn |-> NilFn, err |-> <<"plugin.Open", path>>, calls |-> <<open>>]
    ELSE IF ~Exported(path, symbolName)
    THEN [fn |-> NilFn, err |-> <<"Lookup", path, symbolName>>, calls |-> <<open, lookup>>]
    ELSE IF PluginFiles[path][symbolName] # "eventSink"
    THEN [fn |-> NilFn, err |-> <<"Symbol could not be found", symbolName, path>>,
          calls |-> <<open, lookup>>]
    ELSE [fn |-> <<path, symbolName>>, err |-> Nil, calls |-> <<open, lookup>>]

getEventSinkResult(e) ==
    LET path == e.SINK_PLUGIN_PATH
        symbolName == e.SINK_PLUGIN_SYMBOL
        open == <<"getEventSink", "plugin.Open", path>>
        lookup == <<"getEventSink", "Lookup", symbolName>>
    IN
    IF path = ""
    THEN [fn |-> NilFn, err |-> Nil, calls |-> <<>>]
    ELSE IF ~Loadable(path)
    THEN [fn |-> NilFn, err |-> <<"plugin.Open", path>>, calls |-> <<open>>]
    ELSE IF symbolName = ""
    THEN [fn |-> NilFn, err |-> ErrSinkSymbolRequired,
          calls |-> <<open>>]
    ELSE IF ~Exported(path, symbolName)
    THEN [fn |-> NilFn, err |-> <<"Lookup", path, symbolName>>, calls |-> <<open, lookup>>]
    ELSE IF PluginFiles[path][symbolName] # "eventSink"
    THEN [fn |-> NilFn, err |-> <<"Symbol could not be found", symbolName, path>>,
          calls |-> <<open, lookup>>]
    ELSE [fn |-> <<path, symbolName>>, err |-> Nil, calls |-> <<open, lookup>>]

\* ---------------------------------------------------------------------------
\* sinkInvoker.Invoke

\* A plausible slip: the error of the wrapped invoker is not looked at before
\* the sink is called.
invokeBranchNoErrCheck(sink, err) ==
    IF sink = NilFn THEN "return" ELSE "sink"

\* What Invoke does once the wrapped invoker has returned err (lines 36-44):
\* return at once, return because there is no sink, or call the sink.
invokeBranch(sink, err) ==
    IF err # Nil THEN "return"
    ELSE IF sink = NilFn THEN "return"
    ELSE "sink"

\* A plausible slip: nil is returned in place of the result.
earlyReturnNilResult(result, err) == <<NilResult, err>>

\* The value returned at lines 37 and 41, before any sink call.
earlyReturn(result, err) == <<result, err>>

\* A plausible slip: the result is kept in a place the calls share, so the
\* sink may be handed the result of another call in flight.
sinkArgumentOfOtherCall(c, result) ==
    LET others == {d \in Calls \ {c} : frames[d].result # NilResult} IN
    IF others = {} THEN result ELSE frames[CHOOSE d \in others : TRUE].result

\* The argument the sink is called with at line 44: the call's own result.
sinkArgument(c, result) == result

\* A plausible slip: the error of the sink is dropped.
sinkReturnDropsSinkErr(result, err, newErr) == <<result, err>>

\* The value returned once the sink has returned newErr (lines 45-49).
sinkReturn(result, err, newErr) ==
    IF newErr # Nil THEN <<result, newErr>> ELSE <<result, err>>

\* ---------------------------------------------------------------------------
\* run and main

\* A plausible slip: the error of a setup step is not returned.
afterStepIgnoresErr(err, next) == next

\* Where run goes after a setup step that returned err (lines 169-171,
\* 174-176, 179-181): it returns err, or goes on to the next step.
afterStep(err, next) == IF err # Nil THEN "done" ELSE next

\* main (lines 161-165) panics on an error of run.
mainExit(err) == IF err # Nil THEN "panic" ELSE "ok"

\* run returns err at a setup step, or moves on to next.
Step(err, next) ==
    /\ pc' = afterStep(err, next)
    /\ runErr' = IF afterStep(err, next) = "done" THEN err ELSE runErr
    /\ exit' = IF afterStep(err, next) = "done" THEN mainExit(err) ELSE exit

\* ---------------------------------------------------------------------------
\* Initial states

EnvOf(cmd, n1, n2, n3, sp, ss, kp, ks) ==
    [FUNCTION_COMMAND |-> cmd,
     MAX_FUNCTION_COUNT |-> n1, MAX_WAIT_MILLIS |-> n2, MAX_EXEC_MILLIS |-> n3,
     SOURCE_PLUGIN_PATH |-> sp, SOURCE_PLUGIN_SYMBOL |-> ss,
     SINK_PLUGIN_PATH |-> kp, SINK_PLUGIN_SYMBOL |-> ks]

Start ==
    /\ pc = "getInvoker"
    /\ config = NoConfig
    /\ invoker = "nil"
    /\ eventSource = NilFn
    /\ si = NoSinkInvoker
    /\ runErr = Nil
    /\ exit = "running"
    /\ calls = <<>>
    /\ frames = [c \in Calls |-> IdleFrame]
    /\ hist = [c \in Calls |-> <<>>]

\* Every plugin configuration, the numeric policies left unset.
Init ==
    /\ \E cmd \in CommandStrings, sp \in PluginPaths, ss \in SymbolNames,
          kp \in PluginPaths, ks \in SymbolNames :
          env = EnvOf(cmd, <<>>, <<>>, <<>>, sp, ss, kp, ks)
    /\ Start

\* Every value of the three numeric policies, the plugins those of the
\* scenario "source ./src.so, symbol Source, no sink".
InitConfig ==
    /\ \E n1 \in NumStrings, n2 \in NumStrings, n3 \in NumStrings :
          env = EnvOf("handler --flag", n1, n2, n3, "./src.so", "Source", "", "")
    /\ Start

\* ---------------------------------------------------------------------------
\* Actions of run

\* executil.ParseCmd and fnrun.NewInvokerPool are other repositories' code:
\* either may fail.
getInvoker ==
    /\ pc = "getInvoker"
    /\ \/ /\ calls' = calls \o <<(<<"run", "getInvoker", "">>),
                                 (<<"getInvoker", "ParseCmd", "">>)>>
          /\ Step(ErrParseCmd, "getEventSource")
          /\ UNCHANGED <<config, invoker>>
       \/ /\ calls' = calls \o <<(<<"run", "getInvoker", "">>),
                                 (<<"getInvoker", "ParseCmd", "">>),
                                 (<<"getInvoker", "NewInvokerPool", "">>)>>
          /\ config' = poolConfig(env)
          /\ Step(ErrNewInvokerPool, "getEventSource")
          /\ UNCHANGED invoker
       \/ /\ calls' = calls \o <<(<<"run", "getInvoker", "">>),
                                 (<<"getInvoker", "ParseCmd", "">>),
                                 (<<"getInvoker", "NewInvokerPool", "">>)>>
          /\ config' = poolConfig(env)
          /\ invoker' = "pool"
          /\ Step(Nil, "getEventSource")
    /\ UNCHANGED <<env, eventSource, si, frames, hist>>

getEventSource ==
    /\ pc = "getEventSource"
    /\ LET r == getEventSourceResult(env) IN
          /\ calls' = Append(calls, <<"run", "getEventSource", "">>) \o r.calls
          /\ eventSource' = r.fn
          /\ Step(r.err, "getEventSink")
    /\ UNCHANGED <<env, config, invoker, si, frames, hist>>

\* Lines 178-183 up to the construction of the sinkInvoker.
getEventSink ==
    /\ pc = "getEventSink"
    /\ LET r == getEventSinkResult(env) IN
          /\ calls' = Append(calls, <<"run", "getEventSink", "">>) \o r.calls
          /\ si' = IF afterStep(r.err, "callEventSource") = "done" THEN si
                   ELSE [set |-> TRUE, invoker |-> invoker, sink |-> r.fn]
          /\ Step(r.err, "callEventSource")
    /\ UNCHANGED <<env, config, invoker, eventSource, frames, hist>>

\* Line 183: the event source is called with the sinkInvoker.
callEventSource ==
    /\ pc = "callEventSource"
    /\ pc' = "running"
    /\ calls' = Append(calls, <<"run", "eventSource", "">>)
    /\ UNCHANGED <<env, config, invoker, eventSource, si, runErr, exit, frames, hist>>

\* The event source returns, with or without an error; run returns it.
eventSourceReturn ==
    /\ pc = "running"
    /\ \E e \in {Nil, ErrSource} :
          /\ runErr' = e
          /\ exit' = mainExit(e)
    /\ pc' = "done"
    /\ UNCHANGED <<env, config, invoker, eventSource, si, calls, frames, hist>>

\* ---------------------------------------------------------------------------
\* Actions of Invoke, for call c of the event source

\* The event source calls si.Invoke; Invoke calls the wrapped invoker.
InvokeCall(c) ==
    /\ pc = "running"
    /\ frames[c].pc = "idle"
    /\ frames' = [frames EXCEPT ![c] = [IdleFrame EXCEPT !.pc = "invoker"]]
    /\ hist' = [hist EXCEPT ![c] = <<(<<"invoker.Invoke">>)>>]
    /\ UNCHANGED <<env, pc, config, invoker, eventSource, si, runErr, exit, calls>>

\* The wrapped invoker returns (result, err); Invoke returns or calls the sink.
InvokerReturn(c) ==
    /\ pc = "running"
    /\ frames[c].pc = "invoker"
    /\ \E result \in Results \cup {NilResult}, err \in {Nil, ErrInvoke} :
          IF invokeBranch(si.sink, err) = "return"
          THEN /\ frames' = [frames EXCEPT ![c] =
                    [pc |-> "returned", result |-> result, err |-> err,
                     ret |-> earlyReturn(result, err)]]
               /\ hist' = [hist EXCEPT ![c] =
                    @ \o <<(<<"invoker.return", result, err>>),
                           (<<"return", earlyReturn(result, err)>>)>>]
          ELSE /\ frames' = [frames EXCEPT ![c] =
                    [pc |-> "sink", result |-> result, err |-> err, ret |-> <<>>]]
               /\ hist' = [hist EXCEPT ![c] =
                    @ \o <<(<<"invoker.return", result, err>>),
                           (<<"sink", sinkArgument(c, result)>>)>>]
    /\ UNCHANGED <<env, pc, config, invoker, eventSource, si, runErr, exit, calls>>

\* The sink returns newErr; Invoke returns.
SinkReturn(c) ==
    /\ pc = "running"
    /\ frames[c].pc = "sink"
    /\ \E newErr \in {Nil, ErrSink} :
          LET f == frames[c] IN
          /\ frames' = [frames EXCEPT ![c] =
                [f EXCEPT !.pc = "returned", !.ret = sinkReturn(f.result, f.err, newErr)]]
          /\ hist' = [hist EXCEPT ![c] =
                @ \o <<(<<"sink.return", newErr>>),
                       (<<"return", sinkReturn(f.result, f.err, newErr)>>)>>]
    /\ UNCHANGED <<env, pc, config, invoker, eventSource, si, runErr, exit, calls>>

\* The event source has taken the returned value; it may call Invoke again.
InvokeDone(c) ==
    /\ pc = "running"
    /\ frames[c].pc = "returned"
    /\ frames' = [frames EXCEPT ![c] = IdleFrame]
    /\ hist' = [hist EXCEPT ![c] = <<>>]
    /\ UNCHANGED <<env, pc, config, invoker, eventSource, si, runErr, exit, calls>>

Next ==
    \/ getInvoker
    \/ getEventSource
    \/ getEventSink
    \/ callEventSource
    \/ eventSourceReturn
    \/ \E c \in Calls : InvokeCall(c)
    \/ \E c \in Calls : InvokerReturn(c)
    \/ \E c \in Calls : SinkReturn(c)
    \/ \E c \in Calls : InvokeDone(c)

Spec == Init /\ [][Next]_vars

NextConfig == getInvoker

SpecConfig == InitConfig /\ [][NextConfig]_vars

\* ---------------------------------------------------------------------------
\* Properties

\* The places in the history h of a call where an event of this kind stands.
Ev(h, kind) == {k \in 1..Len(h) : h[k][1] = kind}

\* What the wrapped invoker returned to call c, once it has returned.
InvokerReturned(c) == Ev(hist[c], "invoker.return") # {}
InvokerResult(c) == hist[c][CHOOSE k \in Ev(hist[c], "invoker.return") : TRUE][2]
InvokerErr(c) == hist[c][CHOOSE k \in Ev(hist[c], "invoker.return") : TRUE][3]

\* What the sink returned to call c, once it has returned.
SinkReturned(c) == Ev(hist[c], "sink.return") # {}
SinkErr(c) == hist[c][CHOOSE k \in Ev(hist[c], "sink.return") : TRUE][2]

\* The calls run itself made, in order, and how often it called the event source.
IsRunCall(e) == e[1] = "run"
RunCalls == SelectSeq(calls, IsRunCall)
SourceCalls == Cardinality({k \in 1..Len(calls) : calls[k] = <<"run", "eventSource", "">>})

SetupOrder ==
    <<(<<"run", "getInvoker", "">>), (<<"run", "getEventSource", "">>),
      (<<"run", "getEventSink", "">>), (<<"run", "eventSource", "">>)>>

\* C1: when the wrapped invoker returns a non-nil error, the sink is never
\* called, with or without a sink configured and whatever the result, and
\* Invoke returns the wrapped invoker's result and error.
C1_NoSinkOnInvokerError ==
    \A c \in Calls :
        (InvokerReturned(c) /\ InvokerErr(c) # Nil) =>
            /\ Ev(hist[c], "sink") = {}
            /\ frames[c].pc = "returned"
            /\ frames[c].ret = <<InvokerResult(c), InvokerErr(c)>>

\* A call on a sinkInvoker with a sink whose wrapped invoker returned a
\* non-nil result together with an error.
C1_Witness ==
    \E c \in Calls :
        /\ si.set /\ si.sink # NilFn
        /\ InvokerReturned(c) /\ InvokerErr(c) # Nil /\ InvokerResult(c) # NilResult
        /\ frames[c].pc = "returned"

\* C2: when the wrapped invoker succeeds and the sink returns a non-nil error,
\* Invoke returns the wrapped invoker's result with the sink's error.
C2_SinkErrorReturned ==
    \A c \in Calls :
        (InvokerReturned(c) /\ InvokerErr(c) = Nil /\ SinkReturned(c) /\ SinkErr(c) # Nil) =>
            /\ frames[c].pc = "returned"
            /\ frames[c].ret = <<InvokerResult(c), SinkErr(c)>>
            /\ frames[c].ret[2] # Nil

\* A call whose invoker succeeded with a result and whose sink failed.
C2_Witness ==
    \E c \in Calls :
        /\ InvokerReturned(c) /\ InvokerErr(c) = Nil /\ InvokerResult(c) # NilResult
        /\ SinkReturned(c) /\ SinkErr(c) = ErrSink
        /\ frames[c].pc = "returned"

\* C3: when the wrapped invoker succeeds and there is no sink or the sink
\* returns nil, Invoke returns the wrapped invoker's result with a nil error.
C3_SuccessUnchanged ==
    \A c \in Calls :
        /\ (InvokerReturned(c) /\ InvokerErr(c) = Nil /\ si.sink = NilFn) =>
              /\ frames[c].pc = "returned"
              /\ frames[c].ret = <<InvokerResult(c), Nil>>
        /\ (InvokerReturned(c) /\ InvokerErr(c) = Nil /\ SinkReturned(c) /\ SinkErr(c) = Nil) =>
              /\ frames[c].pc = "returned"
              /\ frames[c].ret = <<InvokerResult(c), Nil>>

\* Every call has returned, one of them the result "ok" with a nil error, with
\* no sink configured or after the sink returned nil.
C3_Witness ==
    /\ \E c \in Calls :
          /\ frames[c].pc = "returned" /\ InvokerErr(c) = Nil /\ InvokerResult(c) = "ok"
          /\ (si.sink = NilFn \/ (SinkReturned(c) /\ SinkErr(c) = Nil))
    /\ \A c \in Calls : frames[c].pc = "returned"

\* C4, as claimed: with SINK_PLUGIN_PATH set and SINK_PLUGIN_SYMBOL empty, the
\* error run returns is the missing-symbol error and the event source is
\* never called.
C4_AsClaimed ==
    (env.SINK_PLUGIN_PATH # "" /\ env.SINK_PLUGIN_SYMBOL = "") =>
        /\ SourceCalls = 0
        /\ pc = "done" => runErr = ErrSinkSymbolRequired

\* C4, amended: with SINK_PLUGIN_PATH set and SINK_PLUGIN_SYMBOL empty, run
\* returns an error and never calls the event source; the error is the
\* missing-symbol error when the pool was built, the event source was resolved
\* and the sink module could be opened, and otherwise it is the error of the
\* step that failed before the symbol name was looked at.
C4_PartialSinkConfigFails ==
    (env.SINK_PLUGIN_PATH # "" /\ env.SINK_PLUGIN_SYMBOL = "") =>
        /\ SourceCalls = 0
        /\ pc \notin {"callEventSource", "running"}
        /\ ~si.set
        /\ pc = "done" =>
              /\ runErr # Nil
              /\ exit = "panic"
              /\ (invoker = "pool" /\ eventSource # NilFn /\ Loadable(env.SINK_PLUGIN_PATH))
                    <=> runErr = ErrSinkSymbolRequired
              /\ (invoker = "pool" /\ eventSource # NilFn /\ ~Loadable(env.SINK_PLUGIN_PATH))
                    => runErr = <<"plugin.Open", env.SINK_PLUGIN_PATH>>

\* run has returned the missing-symbol error of the sink.
C4_Witness ==
    /\ pc = "done"
    /\ env.SINK_PLUGIN_PATH # "" /\ env.SINK_PLUGIN_SYMBOL = ""
    /\ runErr = ErrSinkSymbolRequired

\* C5, as claimed: with SOURCE_PLUGIN_PATH naming a module that cannot be
\* loaded, run returns the module's load error and the event source is never
\* called, whatever the other variables are.
C5_AsClaimed ==
    (env.SOURCE_PLUGIN_PATH # "" /\ ~Loadable(env.SOURCE_PLUGIN_PATH)) =>
        /\ SourceCalls = 0
        /\ pc = "done" => runErr = <<"plugin.Open", env.SOURCE_PLUGIN_PATH>>

\* C5, amended: with SOURCE_PLUGIN_PATH naming a module that cannot be loaded,
\* run returns an error and never calls the event source; the error is the
\* module's load error when the pool was built, and the error of the pool's
\* construction otherwise.
C5_MissingSourceModuleFails ==
    (env.SOURCE_PLUGIN_PATH # "" /\ ~Loadable(env.SOURCE_PLUGIN_PATH)) =>
        /\ SourceCalls = 0
        /\ pc \notin {"getEventSink", "callEventSource", "running"}
        /\ eventSource = NilFn
        /\ pc = "done" =>
              /\ exit = "panic"
              /\ invoker = "pool" => runErr = <<"plugin.Open", env.SOURCE_PLUGIN_PATH>>
              /\ invoker = "nil" => runErr \in {ErrParseCmd, ErrNewInvokerPool}

\* run has returned the load error of the event source's module, the symbol
\* name being empty too.
C5_Witness ==
    /\ pc = "done"
    /\ env.SOURCE_PLUGIN_SYMBOL = ""
    /\ runErr = <<"plugin.Open", "./missing.so">>

\* C6: when SINK_PLUGIN_PATH is empty, getEventSink opens no module and looks
\* up no symbol, even with SINK_PLUGIN_SYMBOL set, it returns no error, and
\* the sinkInvoker handed to the event source has no sink.
C6_SinkOptional ==
    (env.SINK_PLUGIN_PATH = "" /\ (<<"run", "getEventSink", "">>) \in {calls[k] : k \in 1..Len(calls)}) =>
        /\ \A k \in 1..Len(calls) : calls[k][1] # "getEventSink"
        /\ si.set /\ si.sink = NilFn /\ si.invoker = "pool"
        /\ pc \in {"callEventSource", "running", "done"}
        /\ pc = "done" => (SourceCalls = 1 /\ runErr \in {Nil, ErrSource})

\* The event source runs with a sinkInvoker without a sink, SINK_PLUGIN_SYMBOL
\* being set and SINK_PLUGIN_PATH empty.
C6_Witness ==
    /\ pc = "running"
    /\ env.SINK_PLUGIN_PATH = "" /\ env.SINK_PLUGIN_SYMBOL = "Sink"
    /\ si.set /\ si.sink = NilFn

\* One numeric policy: its variable holds a value Atoi rejects.
Unparsable(s) == s # <<>> /\ Atoi(s).err # Nil

\* The value a field takes from its own variable alone.
OwnValue(s, default) == IF s = <<>> \/ Atoi(s).err # Nil THEN default ELSE Atoi(s).i

\* C7: an unparsable MAX_FUNCTION_COUNT, MAX_WAIT_MILLIS or MAX_EXEC_MILLIS
\* leaves its field at the default (8, 500 ms, 30000 ms), does not touch the
\* other two fields, and does not make getInvoker fail: the pool is
\* constructed with the configuration unless ParseCmd failed.
C7_UnparsableKeepsDefault ==
    LET anyUnparsable ==
            \/ Unparsable(env.MAX_FUNCTION_COUNT)
            \/ Unparsable(env.MAX_WAIT_MILLIS)
            \/ Unparsable(env.MAX_EXEC_MILLIS)
    IN
    /\ config.set =>
          /\ Unparsable(env.MAX_FUNCTION_COUNT) => config.MaxInvokerCount = 8
          /\ Unparsable(env.MAX_WAIT_MILLIS) => config.MaxWaitDuration = 500
          /\ Unparsable(env.MAX_EXEC_MILLIS) => config.MaxRunnableTime = 30000
          /\ anyUnparsable =>
                /\ config.MaxInvokerCount = OwnValue(env.MAX_FUNCTION_COUNT, 8)
                /\ config.MaxWaitDuration = OwnValue(env.MAX_WAIT_MILLIS, 500)
                /\ config.MaxRunnableTime = OwnValue(env.MAX_EXEC_MILLIS, 30000)
    /\ (anyUnparsable /\ pc # "getInvoker") =>
          /\ runErr \in {Nil, ErrParseCmd, ErrNewInvokerPool}
          /\ runErr # ErrParseCmd => config.set

\* The pool was built with MAX_EXEC_MILLIS unparsable and MAX_WAIT_MILLIS
\* overriding its default.
C7_Witness ==
    /\ invoker = "pool"
    /\ config.set
    /\ Unparsable(env.MAX_EXEC_MILLIS)
    /\ config.MaxRunnableTime = 30000
    /\ env.MAX_WAIT_MILLIS = <<"2", "0">>
    /\ config.MaxWaitDuration = 20

\* C8: run calls getInvoker, getEventSource, getEventSink and the event source
\* in this order, each at most once; a step that fails is the last call run
\* makes; and once run has returned, the event source was called once if the
\* three steps succeeded and not at all otherwise.
C8_StrictSetupOrder ==
    LET n == Len(RunCalls)
        poolFailed == n >= 1 /\ invoker = "nil"
        sourceFailed == n >= 2 /\ getEventSourceResult(env).err # Nil
        sinkFailed == n >= 3 /\ getEventSinkResult(env).err # Nil
    IN
    /\ n <= 4
    /\ RunCalls = SubSeq(SetupOrder, 1, n)
    /\ poolFailed => (n = 1 /\ pc = "done")
    /\ sourceFailed => (n = 2 /\ pc = "done")
    /\ sinkFailed => (n = 3 /\ pc = "done")
    /\ SourceCalls <= 1
    /\ pc = "done" =>
          SourceCalls = (IF poolFailed \/ sourceFailed \/ sinkFailed THEN 0 ELSE 1)

\* run has returned after the three steps succeeded and the event source was
\* called.
C8_Witness ==
    /\ pc = "done"
    /\ RunCalls = SetupOrder
    /\ SourceCalls = 1

\* C9: in every interleaving of the calls on the shared sinkInvoker, a call
\* calls the wrapped invoker once and the sink at most once, the sink only
\* after its own wrapped invoker has returned, and the sink is handed the
\* result that this call's invoker returned and that this call returns.
C9_CallsIndependent ==
    \A c \in Calls :
        LET h == hist[c] IN
        /\ Cardinality(Ev(h, "invoker.Invoke")) = (IF frames[c].pc = "idle" THEN 0 ELSE 1)
        /\ Cardinality(Ev(h, "invoker.return")) <= 1
        /\ Cardinality(Ev(h, "sink")) <= 1
        /\ \A k \in Ev(h, "sink") :
              /\ \E j \in Ev(h, "invoker.return") : j < k
              /\ \E j \in Ev(h, "invoker.Invoke") : j < k
              /\ h[k][2] = InvokerResult(c)
              /\ h[k][2] = frames[c].result
              /\ frames[c].pc = "returned" => frames[c].ret[1] = h[k][2]

\* Two calls are in their sinks at once, with different results.
C9_Witness ==
    \E c \in Calls, d \in Calls :
        /\ c # d
        /\ frames[c].pc = "sink" /\ frames[d].pc = "sink"
        /\ frames[c].result = "ok" /\ frames[d].result = "r2"

\* C10, as claimed: the configuration handed to the pool always has a
\* positive MaxInvokerCount, whatever MAX_FUNCTION_COUNT holds.
C10_PositiveInvokerCount ==
    config.set => config.MaxInvokerCount > 0

====
